---- MODULE Spec2Model ----
(***************************************************************************)
(* Model of src/app.py (org-social live preview): the feed parser          *)
(* OrgSocialParser, the content renderer PreviewGenerator._format_content, *)
(* parse_post_url and the preview() request pipeline.                      *)
(*                                                                         *)
(* A Python str is a sequence of one-character strings.  Offsets are the   *)
(* 0-based offsets of the Python code: Slice(s, a, b) is s[a:b] and        *)
(* At(s, p) is s[p].  Each regular expression of the source is an operator *)
(* that computes the match the re module returns (leftmost start, greedy   *)
(* and lazy quantifiers tried in the module's backtracking order).         *)
(***************************************************************************)
EXTENDS Integers, Sequences, FiniteSets, TLC

VARIABLES
    metadata,   \* OrgSocialParser.metadata of the sequentially used instance
    posts,      \* OrgSocialParser.posts of that instance
    given,      \* the text given to the latest parse_content call: None or Some(text)
    dirty       \* the instance held a metadata key and a post when that call began

parserVars == <<metadata, posts, given, dirty>>

VARIABLES
    f_pc,       \* "call" before a _format_content call, "done" after it
    f_content,  \* its argument content
    f_mood,     \* its argument mood
    f_conv,     \* how to_html behaves in this call
    f_src,      \* the fenced blocks the content was written with: <<lang, code>>
    f_blocks,   \* code_blocks as the call leaves it
    f_out       \* the outcome of the call

formatVars == <<f_pc, f_content, f_mood, f_conv, f_src, f_blocks, f_out>>

VARIABLES
    u_pc,       \* "call" before a parse_post_url call, "done" after it
    u_url,      \* its argument post_url
    u_result    \* the pair it returns

urlVars == <<u_pc, u_url, u_result>>

VARIABLES
    c_pc,           \* where each of two threads is in its parse_content call
    c_text,         \* the content each thread passes
    c_i,            \* the loop index of each thread
    c_dicts,        \* the dict objects made so far, by identity
    c_lists,        \* the list objects made so far, by identity
    self_metadata,  \* the dict the shared instance's self.metadata refers to
    self_posts,     \* the list the shared instance's self.posts refers to
    c_ret,          \* the list each call returned
    c_seen          \* the dict each caller got from parser.metadata afterwards

concVars == <<c_pc, c_text, c_i, c_dicts, c_lists, self_metadata, self_posts,
              c_ret, c_seen>>

VARIABLES
    r_pc,        \* the next step of one preview() request
    r_arg,       \* request.args.get("post"): None or Some(text)
    r_file_url,  \* file_url of parse_post_url
    r_post_id,   \* post_id of parse_post_url
    r_text,      \* what fetch_social_org returned: None or Some(text)
    r_metadata,  \* parser.metadata of the parser of this request
    r_posts,     \* parser.posts of the parser of this request
    r_post,      \* the post found: None or Some(post)
    r_conv,      \* how to_html behaved while rendering
    r_ctx,       \* the outcome of _prepare_context: the context or an exception
    r_status,    \* HTTP status of the response, 0 while the request runs
    r_steps      \* the steps of the pipeline taken so far, in order

reqVars == <<r_pc, r_arg, r_file_url, r_post_id, r_text, r_metadata, r_posts,
             r_post, r_conv, r_ctx, r_status, r_steps>>

vars == <<parserVars, formatVars, urlVars, concVars, reqVars>>

\* the parts of the state a specification leaves alone
ParserIdle == metadata = <<>> /\ posts = <<>> /\ given = <<>> /\ dirty = FALSE
FormatIdle ==
    /\ f_pc = "idle" /\ f_content = <<>> /\ f_mood = <<>> /\ f_conv = "idle"
    /\ f_src = <<>> /\ f_blocks = <<>> /\ f_out = <<>>
UrlIdle == u_pc = "idle" /\ u_url = <<>> /\ u_result = <<>>
ConcIdle ==
    /\ c_pc = <<>> /\ c_text = <<>> /\ c_i = <<>> /\ c_dicts = <<>> /\ c_lists = <<>>
    /\ self_metadata = 0 /\ self_posts = 0 /\ c_ret = <<>> /\ c_seen = <<>>
ReqIdle ==
    /\ r_pc = "idle" /\ r_arg = <<>> /\ r_file_url = <<>> /\ r_post_id = <<>>
    /\ r_text = <<>> /\ r_metadata = <<>> /\ r_posts = <<>> /\ r_post = <<>>
    /\ r_conv = "idle" /\ r_ctx = <<>> /\ r_status = 0
    /\ r_steps = <<>>

-----------------------------------------------------------------------------
(* Python str helpers *)

None == <<>>
Some(v) == <<v>>
IsSome(o) == o # <<>>
Get(o) == o[1]

Max(S) == CHOOSE x \in S : \A y \in S : y <= x
Min(S) == CHOOSE x \in S : \A y \in S : x <= y

\* s[p]
At(s, p) == s[p + 1]

\* s[a:b] for 0 <= a, b <= len(s)
Slice(s, a, b) == SubSeq(s, a + 1, b)

\* the class \s of the re module, over the characters of the model
IsSpace(c) == c \in {" ", "\n"}

\* s[p:].startswith(lit)
StartsAt(s, p, lit) ==
    /\ p >= 0
    /\ p + Len(lit) <= Len(s)
    /\ \A i \in 1..Len(lit) : s[p + i] = lit[i]

\* offset just after the longest run of \s that starts at p
RECURSIVE WsEnd(_, _)
WsEnd(s, p) ==
    IF p < Len(s) /\ IsSpace(At(s, p)) THEN WsEnd(s, p + 1) ELSE p

\* offset of the first whitespace-free character at or after p, from the left
RECURSIVE LStripFrom(_, _)
LStripFrom(s, p) ==
    IF p < Len(s) /\ IsSpace(At(s, p)) THEN LStripFrom(s, p + 1) ELSE p

RECURSIVE RStripTo(_, _)
RStripTo(s, e) ==
    IF e > 0 /\ IsSpace(At(s, e - 1)) THEN RStripTo(s, e - 1) ELSE e

\* str.strip()
Strip(s) ==
    LET a == LStripFrom(s, 0)
        b == RStripTo(s, Len(s))
    IN IF a >= b THEN <<>> ELSE Slice(s, a, b)

\* ^ under re.MULTILINE
LineStart(s, p) == p = 0 \/ At(s, p - 1) = "\n"

\* $ under re.MULTILINE
LineEndAt(s, p) == p = Len(s) \/ At(s, p) = "\n"

\* offset of the end of the line that holds offset p
RECURSIVE LineEnd(_, _)
LineEnd(s, p) == IF LineEndAt(s, p) THEN p ELSE LineEnd(s, p + 1)

\* "\s*$" started at a: greedy \s*, backing off to the last offset where $ holds
DollarEnd(s, a) ==
    LET w == WsEnd(s, a)
        E == {e \in a..w : LineEndAt(s, e)}
    IN IF E = {} THEN -1 ELSE Max(E)

\* str.find(lit, from): -1 when absent
Find(s, lit, from) ==
    LET K == {k \in from..Len(s) : StartsAt(s, k, lit)}
    IN IF K = {} THEN -1 ELSE Min(K)

\* str.rfind(lit): -1 when absent
RFind(s, lit) ==
    LET K == {k \in 0..Len(s) : StartsAt(s, k, lit)}
    IN IF K = {} THEN -1 ELSE Max(K)

\* str.count(c) for one character
Count(s, c) == Cardinality({i \in 1..Len(s) : s[i] = c})

\* str.split("\n")
RECURSIVE SplitLines(_)
SplitLines(s) ==
    LET k == Find(s, <<"\n">>, 0)
    IN IF k = -1 THEN <<s>>
       ELSE <<Slice(s, 0, k)>> \o SplitLines(Slice(s, k + 1, Len(s)))

-----------------------------------------------------------------------------
(* OrgSocialParser *)

\* {}
EmptyDict == [k \in {} |-> <<>>]

kTITLE == <<"#", "+", "T", "I", "T", "L", "E", ":">>
kNICK == <<"#", "+", "N", "I", "C", "K", ":">>
kDESCRIPTION == <<"#", "+", "D", "E", "S", "C", "R", "I", "P", "T", "I", "O", "N", ":">>
kAVATAR == <<"#", "+", "A", "V", "A", "T", "A", "R", ":">>

\* metadata_patterns: key -> the literal of its pattern, in dict order
MetadataKeys == <<"TITLE", "NICK", "DESCRIPTION", "AVATAR">>
metadata_patterns ==
    [k \in {"TITLE", "NICK", "DESCRIPTION", "AVATAR"} |->
        CASE k = "TITLE" -> kTITLE
          [] k = "NICK" -> kNICK
          [] k = "DESCRIPTION" -> kDESCRIPTION
          [] k = "AVATAR" -> kAVATAR]

\* r"^\s*\#\+KEY:\s*(.+)$" matched at start offset p: Some(group 1) or None.
\* Both \s* run over newlines; the second one backs off until "." has a
\* character to take, and ".+" then runs to the end of that line.
MetaMatchAt(s, lit, p) ==
    LET q == WsEnd(s, p)
        r == q + Len(lit)
        w == WsEnd(s, r)
        G == {g \in r..w : g < Len(s) /\ At(s, g) # "\n"}
    IN IF LineStart(s, p) /\ StartsAt(s, q, lit) /\ G # {}
       THEN Some(Slice(s, Max(G), LineEnd(s, Max(G))))
       ELSE None

\* re.search(pattern, content, re.MULTILINE): group 1 of the leftmost match
MetaSearch(s, lit) ==
    LET P == {p \in 0..Len(s) : IsSome(MetaMatchAt(s, lit, p))}
    IN IF P = {} THEN None ELSE MetaMatchAt(s, lit, Min(P))

\* one turn of the loop of _extract_metadata: self.metadata[key] = ...
MetadataStore(md, key, text) ==
    LET m == MetaSearch(text, metadata_patterns[key])
    IN IF IsSome(m) THEN (key :> Strip(Get(m))) @@ md ELSE md

RECURSIVE MetadataLoop(_, _, _)
MetadataLoop(md, text, i) ==
    IF i > Len(MetadataKeys) THEN md
    ELSE MetadataLoop(MetadataStore(md, MetadataKeys[i], text), text, i + 1)

kPosts == <<"P", "o", "s", "t", "s">>
kStars == <<"*", "*">>
kNlStars == <<"\n", "*", "*">>
kPROPERTIES == <<":", "P", "R", "O", "P", "E", "R", "T", "I", "E", "S", ":">>
kEND == <<":", "E", "N", "D", ":">>
kNlEND == <<"\n", ":", "E", "N", "D", ":">>
kID == <<"I", "D">>
kContent == <<"c", "o", "n", "t", "e", "n", "t">>

\* r"^\*\s+Posts\s*$" matched at p: match.end() or -1
PostsHeadingEndAt(s, p) ==
    LET w == WsEnd(s, p + 1)
    IN IF /\ LineStart(s, p)
          /\ StartsAt(s, p, <<"*">>)
          /\ w > p + 1
          /\ StartsAt(s, w, kPosts)
       THEN DollarEnd(s, w + Len(kPosts))
       ELSE -1

\* re.search(posts_pattern, content, re.MULTILINE).end(), -1 without a match
PostsSectionEnd(s) ==
    LET P == {p \in 0..Len(s) : PostsHeadingEndAt(s, p) # -1}
    IN IF P = {} THEN -1 ELSE PostsHeadingEndAt(s, Min(P))

\* r"^(\*\*)\s*$" matched at p: match.end() or -1
MarkerEndAt(s, p) ==
    IF LineStart(s, p) /\ StartsAt(s, p, kStars)
    THEN DollarEnd(s, p + 2)
    ELSE -1

\* re.finditer(post_pattern, posts_content, re.MULTILINE) from offset from:
\* the match.end() of every match, in order
RECURSIVE PostPositions(_, _)
PostPositions(s, from) ==
    LET P == {p \in from..Len(s) : MarkerEndAt(s, p) # -1}
    IN IF P = {} THEN <<>>
       ELSE <<MarkerEndAt(s, Min(P))>> \o PostPositions(s, MarkerEndAt(s, Min(P)))

\* end_pos of candidate i (1-based here)
EndPos(pc, positions, i) ==
    IF i + 1 <= Len(positions)
    THEN LET last_newline == RFind(Slice(pc, 0, positions[i + 1]), kNlStars)
         IN IF last_newline # -1 THEN last_newline ELSE positions[i + 1]
    ELSE Len(pc)

\* posts_content[start_pos:end_pos].strip()
BlockOf(pc, positions, i) ==
    LET a == positions[i]
        b == EndPos(pc, positions, i)
    IN IF a >= b THEN <<>> ELSE Strip(Slice(pc, a, b))

\* r":PROPERTIES:\s*\n(.*?)\n:END:" with re.DOTALL matched at q: Some(group 1)
\* or None.  \s* is greedy, so the newline of the pattern is tried from the
\* last newline of the whitespace run backwards; (.*?) is lazy.
PropertiesMatchAt(b, q) ==
    LET a == q + Len(kPROPERTIES)
        w == WsEnd(b, a)
        Ok == {n \in a..(w - 1) : At(b, n) = "\n" /\ Find(b, kNlEND, n + 1) # -1}
    IN IF StartsAt(b, q, kPROPERTIES) /\ Ok # {}
       THEN Some(Slice(b, Max(Ok) + 1, Find(b, kNlEND, Max(Ok) + 1)))
       ELSE None

PropertiesSearch(b) ==
    LET Q == {q \in 0..Len(b) : IsSome(PropertiesMatchAt(b, q))}
    IN IF Q = {} THEN None ELSE PropertiesMatchAt(b, Min(Q))

\* the body of the loop over properties_content.split("\n")
PropertyStore(post, rawline) ==
    LET line == Strip(rawline)
        first_colon == Find(line, <<":">>, 1)
        key == Strip(Slice(line, 1, first_colon))
        value == Strip(Slice(line, first_colon + 1, Len(line)))
    IN IF /\ line # <<>>
          /\ line[1] = ":"
          /\ Count(line, ":") >= 2
          /\ first_colon # -1
          /\ key # <<>>
       THEN (key :> value) @@ post
       ELSE post

RECURSIVE PropertyLoop(_, _, _)
PropertyLoop(post, lines, i) ==
    IF i > Len(lines) THEN post
    ELSE PropertyLoop(PropertyStore(post, lines[i]), lines, i + 1)

\* r":END:\s*\n" matched at p: match.end() or -1
EndMatchAt(b, p) ==
    LET a == p + Len(kEND)
        w == WsEnd(b, a)
        N == {n \in a..(w - 1) : At(b, n) = "\n"}
    IN IF StartsAt(b, p, kEND) /\ N # {} THEN Max(N) + 1 ELSE -1

\* re.search(r":END:\s*\n", block).end(), -1 without a match
EndSearch(b) ==
    LET P == {p \in 0..Len(b) : EndMatchAt(b, p) # -1}
    IN IF P = {} THEN -1 ELSE EndMatchAt(b, Min(P))

\* post["content"] of _parse_post_block
BlockContent(block) ==
    LET e == EndSearch(block)
    IN IF e # -1 THEN Strip(Slice(block, e, Len(block))) ELSE block

\* _parse_post_block(block): a dict from property key to value, plus "content"
parse_post_block(block) ==
    LET pm == PropertiesSearch(block)
        props == IF IsSome(pm)
                 THEN PropertyLoop(EmptyDict, SplitLines(Get(pm)), 1)
                 ELSE EmptyDict
    IN (kContent :> BlockContent(block)) @@ props

\* post and post.get("ID")
HasID(post) == kID \in DOMAIN post /\ post[kID] # <<>>

\* the loop body without the test of post.get("ID")
PostsAppendAnyRecord(ps, block) ==
    IF block # <<>> THEN Append(ps, parse_post_block(block)) ELSE ps

\* the body of the loop over post_positions: self.posts.append(post)
PostsAppend(ps, block) ==
    LET post == parse_post_block(block)
    IN IF block # <<>> /\ HasID(post) THEN Append(ps, post) ELSE ps

RECURSIVE PostsLoop(_, _, _, _)
PostsLoop(ps, pc, positions, i) ==
    IF i > Len(positions) THEN ps
    ELSE PostsLoop(PostsAppend(ps, BlockOf(pc, positions, i)), pc, positions, i + 1)

\* posts_content = content[posts_section_match.end():]
PostsContent(text) == Slice(text, PostsSectionEnd(text), Len(text))

\* the records _extract_posts(content) appends to self.posts, in order
PostsFound(text) ==
    IF PostsSectionEnd(text) = -1 THEN <<>>
    ELSE LET pc == PostsContent(text)
         IN PostsLoop(<<>>, pc, PostPositions(pc, 0), 1)

\* the keys _extract_metadata(content) stores in self.metadata
MetadataFound(text) == MetadataLoop(EmptyDict, text, 1)

\* find_post_by_id(post_id): Some(post) or None
find_post_by_id(ps, post_id) ==
    LET I == {i \in 1..Len(ps) : kID \in DOMAIN ps[i] /\ ps[i][kID] = post_id}
    IN IF I = {} THEN None ELSE Some(ps[Min(I)])

\* parse_content without the reset: the dict of the previous call is kept
KeepMetadata(md) == md

\* self.metadata = {} at the head of parse_content
ResetMetadata(md) == EmptyDict

\* self.posts = [] at the head of parse_content
ResetPosts(ps) == <<>>

-----------------------------------------------------------------------------
(* PreviewGenerator._format_content *)

LowerAZ == <<"a", "b", "c", "d", "e", "f", "g", "h", "i", "j", "k", "l", "m",
    "n", "o", "p", "q", "r", "s", "t", "u", "v", "w", "x", "y", "z">>
UpperAZ == <<"A", "B", "C", "D", "E", "F", "G", "H", "I", "J", "K", "L", "M",
    "N", "O", "P", "Q", "R", "S", "T", "U", "V", "W", "X", "Y", "Z">>
Digits == <<"0", "1", "2", "3", "4", "5", "6", "7", "8", "9">>

Range(f) == {f[i] : i \in DOMAIN f}

\* the class \w
IsWord(c) == c \in Range(LowerAZ) \cup Range(UpperAZ) \cup Range(Digits) \cup {"_"}

UpperOf == [c \in Range(LowerAZ) |-> UpperAZ[CHOOSE i \in 1..26 : LowerAZ[i] = c]]
LowerOf == [c \in Range(UpperAZ) |-> LowerAZ[CHOOSE i \in 1..26 : UpperAZ[i] = c]]
Upper(c) == IF c \in DOMAIN UpperOf THEN UpperOf[c] ELSE c

\* str.lower()
Lower(s) == [i \in 1..Len(s) |-> IF s[i] \in DOMAIN LowerOf THEN LowerOf[s[i]] ELSE s[i]]

\* str(n) for the indices the model reaches
Str(n) == <<Digits[n + 1]>>

\* a literal of upper-case letters matched under re.IGNORECASE
StartsAtCI(s, p, lit) ==
    /\ p >= 0
    /\ p + Len(lit) <= Len(s)
    /\ \A i \in 1..Len(lit) : Upper(s[p + i]) = lit[i]

FindCI(s, lit, from) ==
    LET K == {k \in from..Len(s) : StartsAtCI(s, k, lit)}
    IN IF K = {} THEN -1 ELSE Min(K)

\* s[a:b].endswith(lit)
EndsWith(s, lit) == Len(lit) <= Len(s) /\ StartsAt(s, Len(s) - Len(lit), lit)

\* offset just after the longest run of \w that starts at p
RECURSIVE WordEnd(_, _)
WordEnd(s, p) ==
    IF p < Len(s) /\ IsWord(At(s, p)) THEN WordEnd(s, p + 1) ELSE p

\* offset of the first character from p on that is in Stop, Len(s) without one
RECURSIVE RunEnd(_, _, _)
RunEnd(s, p, Stop) ==
    IF p < Len(s) /\ At(s, p) \notin Stop THEN RunEnd(s, p + 1, Stop) ELSE p

\* str.replace(old, new): every occurrence, left to right, without overlap
RECURSIVE ReplaceFrom(_, _, _, _)
ReplaceFrom(s, old, new, from) ==
    LET k == Find(s, old, from)
    IN IF k = -1 THEN Slice(s, from, Len(s))
       ELSE Slice(s, from, k) \o new \o ReplaceFrom(s, old, new, k + Len(old))

Replace(s, old, new) == ReplaceFrom(s, old, new, 0)

kBEGIN_SRC ==
    <<"#", "+", "B", "E", "G", "I", "N", "_", "S", "R", "C">>
kNlEND_SRC ==
    <<"\n", "#", "+", "E", "N", "D", "_", "S", "R", "C">>
kPlaceholderHead ==
    <<"_", "_", "_", "C", "O", "D", "E", "_", "B", "L", "O", "C", "K", "_">>
kPlaceholderTail ==
    <<"_", "_", "_">>
kPreOpen ==
    <<"<", "p", "r", "e", " ", "s", "t", "y", "l", "e", "=", "\"", "b", "a",
    "c", "k", "g", "r", "o", "u", "n", "d", "-", "c", "o", "l", "o", "r",
    ":", " ", "#", "f", "6", "f", "8", "f", "a", ";", " ", "p", "a", "d",
    "d", "i", "n", "g", ":", " ", "1", "6", "p", "x", ";", " ", "b", "o",
    "r", "d", "e", "r", "-", "r", "a", "d", "i", "u", "s", ":", " ", "6",
    "p", "x", ";", " ", "o", "v", "e", "r", "f", "l", "o", "w", "-", "x",
    ":", " ", "a", "u", "t", "o", ";", " ", "m", "a", "r", "g", "i", "n",
    ":", " ", "1", "0", "p", "x", " ", "0", ";", "\"", ">", "<", "c", "o",
    "d", "e", " ", "c", "l", "a", "s", "s", "=", "\"", "l", "a", "n", "g",
    "u", "a", "g", "e", "-">>
kPreMid ==
    <<"\"", ">">>
kPreClose ==
    <<"<", "/", "c", "o", "d", "e", ">", "<", "/", "p", "r", "e", ">">>
kImgOpen ==
    <<"<", "i", "m", "g">>
kSrcAttr ==
    <<"s", "r", "c", "=", "\"">>
kImgStyle ==
    <<" ", "s", "t", "y", "l", "e", "=", "\"", "w", "i", "d", "t", "h", ":",
    " ", "1", "0", "0", "%", ";", " ", "h", "e", "i", "g", "h", "t", ":",
    " ", "a", "u", "t", "o", ";", " ", "b", "o", "r", "d", "e", "r", "-",
    "r", "a", "d", "i", "u", "s", ":", " ", "8", "p", "x", ";", " ", "m",
    "a", "r", "g", "i", "n", ":", " ", "1", "0", "p", "x", " ", "0", ";",
    "\"", ">">>
kAnchor ==
    <<"<", "a", " ">>
kStyledAnchor ==
    <<"<", "a", " ", "s", "t", "y", "l", "e", "=", "\"", "c", "o", "l", "o",
    "r", ":", " ", "#", "1", "d", "9", "b", "f", "0", ";", "\"", " ", "t",
    "a", "r", "g", "e", "t", "=", "\"", "_", "b", "l", "a", "n", "k", "\"",
    " ">>
kMentionHref ==
    <<"h", "r", "e", "f", "=", "\"", "o", "r", "g", "-", "s", "o", "c", "i",
    "a", "l", ":">>
kAnchorClose ==
    <<"<", "/", "a", ">">>
kMentionOpen ==
    <<"<", "a", " ", "h", "r", "e", "f", "=", "\"", "#", "\"", " ", "s", "t",
    "y", "l", "e", "=", "\"", "c", "o", "l", "o", "r", ":", " ", "#", "1",
    "d", "9", "b", "f", "0", ";", "\"", ">", "@">>
kHrefAttr ==
    <<"h", "r", "e", "f", "=", "\"">>
kHttp ==
    <<"h", "t", "t", "p">>
kSchemeSep ==
    <<":", "/", "/">>
kUrlImgOpen ==
    <<"<", "i", "m", "g", " ", "s", "r", "c", "=", "\"">>
kUrlImgClose ==
    <<"\"", " ", "s", "t", "y", "l", "e", "=", "\"", "w", "i", "d", "t", "h",
    ":", " ", "1", "0", "0", "%", ";", " ", "h", "e", "i", "g", "h", "t",
    ":", " ", "a", "u", "t", "o", ";", " ", "b", "o", "r", "d", "e", "r",
    "-", "r", "a", "d", "i", "u", "s", ":", " ", "8", "p", "x", ";", " ",
    "m", "a", "r", "g", "i", "n", ":", " ", "1", "0", "p", "x", " ", "0",
    ";", "\"", " ", "a", "l", "t", "=", "\"", "I", "m", "a", "g", "e", "\"",
    ">">>
kUrlAnchorOpen ==
    <<"<", "a", " ", "s", "t", "y", "l", "e", "=", "\"", "c", "o", "l", "o",
    "r", ":", " ", "#", "1", "d", "9", "b", "f", "0", ";", "\"", " ", "t",
    "a", "r", "g", "e", "t", "=", "\"", "_", "b", "l", "a", "n", "k", "\"",
    " ", "h", "r", "e", "f", "=", "\"">>
kSpanOpen ==
    <<"<", "s", "p", "a", "n", " ", "s", "t", "y", "l", "e", "=", "\"", "f",
    "o", "n", "t", "-", "s", "i", "z", "e", ":", " ", "2", "0", "p", "x",
    ";", "\"", ">">>
kSpanClose ==
    <<"<", "/", "s", "p", "a", "n", ">">>
kNoContent ==
    <<"N", "o", " ", "c", "o", "n", "t", "e", "n", "t">>
kBr ==
    <<"<", "b", "r", ">">>
kNbsp2 ==
    <<"&", "n", "b", "s", "p", ";", "&", "n", "b", "s", "p", ";">>
kAmp ==
    <<"&", "a", "m", "p", ";">>
kLt ==
    <<"&", "l", "t", ";">>
kGt ==
    <<"&", "g", "t", ";">>
kParOpen ==
    <<"<", "p", ">">>
kParClose ==
    <<"<", "/", "p", ">">>
kFallbackDate ==
    <<"2", "0", "2", "4", "-", "0", "1", "-", "0", "1">>

\* code.replace("&", "&amp;").replace("<", "&lt;").replace(">", "&gt;")
HtmlEscape(code) ==
    Replace(Replace(Replace(code, <<"&">>, kAmp), <<"<">>, kLt), <<">">>, kGt)

\* f"___CODE_BLOCK_{len(code_blocks)}___"
Placeholder(n) == kPlaceholderHead \o Str(n) \o kPlaceholderTail

\* r"#\+BEGIN_SRC\s+(\w+)?\s*\n(.*?)\n#\+END_SRC" with DOTALL | IGNORECASE
\* matched at p: Some([lang, code, end]) or None.  The greedy \s+ first takes
\* the whole run of blanks; then (\w+)? is the whole word that follows, and
\* \s*\n ends at the last newline of the blanks after it that still has an
\* end marker behind it.  When that fails \s+ backs off into its own run, the
\* language is absent and the newline is one of that run.
CodeBlockMatchAt(s, p) ==
    LET r == p + Len(kBEGIN_SRC)
        w1 == WsEnd(s, r)
        x == WordEnd(s, w1)
        w2 == WsEnd(s, x)
        Closed(n) == At(s, n) = "\n" /\ FindCI(s, kNlEND_SRC, n + 1) # -1
        N1 == {n \in x..(w2 - 1) : Closed(n)}
        N2 == {n \in (r + 1)..(w1 - 1) : Closed(n)}
        Hit(lang, n) ==
            LET k == FindCI(s, kNlEND_SRC, n + 1)
            IN Some([lang |-> lang, code |-> Slice(s, n + 1, k),
                     end |-> k + Len(kNlEND_SRC)])
    IN IF ~(StartsAtCI(s, p, kBEGIN_SRC) /\ w1 > r) THEN None
       ELSE IF N1 # {} THEN Hit(Slice(s, w1, x), Max(N1))
       ELSE IF N2 # {} THEN Hit(<<"t", "e", "x", "t">>, Max(N2))
       ELSE None

\* re.sub(code_block_pattern, replace_code_block, content) from offset from,
\* with n blocks already recorded: [text |-> content_processed, blocks |-> code_blocks]
RECURSIVE ProtectFrom(_, _, _)
ProtectFrom(s, from, n) ==
    LET P == {p \in from..Len(s) : IsSome(CodeBlockMatchAt(s, p))}
    IN IF P = {} THEN [text |-> Slice(s, from, Len(s)), blocks |-> <<>>]
       ELSE LET m == Get(CodeBlockMatchAt(s, Min(P)))
                rest == ProtectFrom(s, m.end, n + 1)
            IN [text |-> Slice(s, from, Min(P)) \o Placeholder(n) \o rest.text,
                blocks |-> <<[lang |-> m.lang, code |-> HtmlEscape(m.code),
                              placeholder |-> Placeholder(n)]>> \o rest.blocks]

\* code_html of one recorded block
CodeHtml(block) == kPreOpen \o block.lang \o kPreMid \o block.code \o kPreClose

\* for block in code_blocks: html = html.replace(block["placeholder"], code_html)
RECURSIVE Restore(_, _, _)
Restore(html, blocks, i) ==
    IF i > Len(blocks) THEN html
    ELSE Restore(Replace(html, blocks[i].placeholder, CodeHtml(blocks[i])), blocks, i + 1)

\* r'<img\s+([^>]*?)src="([^"]+)"([^>]*?)>' matched at p: Some([g1, g2, g3, end])
\* or None.  \s+ takes the whole run of blanks, the lazy group 1 ends at the
\* first src=" that completes a match, group 2 runs to the next quote and the
\* lazy group 3 to the next ">".
ImgAttrsAt(s, w, b) ==
    LET q == RunEnd(s, b + Len(kSrcAttr), {"\""})
        z == RunEnd(s, q + 1, {">"})
    IN /\ StartsAt(s, b, kSrcAttr)
       /\ RunEnd(s, w, {">"}) >= b
       /\ q > b + Len(kSrcAttr)
       /\ q < Len(s)
       /\ z < Len(s)

ImgMatchAt(s, p) ==
    LET w == WsEnd(s, p + Len(kImgOpen))
        B == {b \in w..Len(s) : ImgAttrsAt(s, w, b)}
    IN IF StartsAt(s, p, kImgOpen) /\ w > p + Len(kImgOpen) /\ B # {}
       THEN LET b == Min(B)
                q == RunEnd(s, b + Len(kSrcAttr), {"\""})
                z == RunEnd(s, q + 1, {">"})
            IN Some([g1 |-> Slice(s, w, b), g2 |-> Slice(s, b + Len(kSrcAttr), q),
                     g3 |-> Slice(s, q + 1, z), end |-> z + 1])
       ELSE None

\* the re.sub that makes images full width
RECURSIVE ImgPassFrom(_, _)
ImgPassFrom(s, from) ==
    LET P == {p \in from..Len(s) : IsSome(ImgMatchAt(s, p))}
    IN IF P = {} THEN Slice(s, from, Len(s))
       ELSE LET m == Get(ImgMatchAt(s, Min(P)))
            IN Slice(s, from, Min(P)) \o kImgOpen \o <<" ">> \o m.g1 \o kSrcAttr
               \o m.g2 \o <<"\"">> \o m.g3 \o kImgStyle \o ImgPassFrom(s, m.end)

\* html.replace("<a ", '<a style="color: #1d9bf0;" target="_blank" ')
LinkPass(html) == Replace(html, kAnchor, kStyledAnchor)

\* r'<a[^>]*href="org-social:([^"]+)"[^>]*>@?([^<]+)</a>' matched at p:
\* Some([g2, end]) or None.  The greedy [^>]* is cut back to the last
\* href="org-social: of the tag that completes a match; @? takes an "@" when
\* text is left after it.
MentionTextAt(s, z) ==
    LET a == IF z + 1 < Len(s) /\ At(s, z + 1) = "@" THEN z + 2 ELSE z + 1
        y1 == RunEnd(s, a, {"<"})
        y0 == RunEnd(s, z + 1, {"<"})
    IN IF y1 > a /\ StartsAt(s, y1, kAnchorClose)
       THEN Some([g2 |-> Slice(s, a, y1), end |-> y1 + Len(kAnchorClose)])
       ELSE IF y0 > z + 1 /\ StartsAt(s, y0, kAnchorClose)
       THEN Some([g2 |-> Slice(s, z + 1, y0), end |-> y0 + Len(kAnchorClose)])
       ELSE None

MentionAtHref(s, h) ==
    LET q == RunEnd(s, h + Len(kMentionHref), {"\""})
        z == RunEnd(s, q + 1, {">"})
    IN IF /\ StartsAt(s, h, kMentionHref)
          /\ q > h + Len(kMentionHref)
          /\ q < Len(s)
          /\ z < Len(s)
       THEN MentionTextAt(s, z)
       ELSE None

MentionMatchAt(s, p) ==
    LET m == RunEnd(s, p + 2, {">"})
        H == {h \in (p + 2)..m : IsSome(MentionAtHref(s, h))}
    IN IF StartsAt(s, p, <<"<", "a">>) /\ H # {}
       THEN MentionAtHref(s, Max(H))
       ELSE None

\* the re.sub that rewrites org-social mentions
RECURSIVE MentionPassFrom(_, _)
MentionPassFrom(s, from) ==
    LET P == {p \in from..Len(s) : IsSome(MentionMatchAt(s, p))}
    IN IF P = {} THEN Slice(s, from, Len(s))
       ELSE LET m == Get(MentionMatchAt(s, Min(P)))
            IN Slice(s, from, Min(P)) \o kMentionOpen \o m.g2 \o kAnchorClose
               \o MentionPassFrom(s, m.end)

\* r'(?<!href=")(?<!src=")(https?://[^\s<>"]+)' matched at p: match.end() or -1
UrlEndAt(s, p) ==
    LET a == IF StartsAt(s, p + Len(kHttp), <<"s">> \o kSchemeSep)
             THEN p + Len(kHttp) + 1 + Len(kSchemeSep)
             ELSE p + Len(kHttp) + Len(kSchemeSep)
        e == RunEnd(s, a, {" ", "\n", "<", ">", "\""})
    IN IF /\ StartsAt(s, p, kHttp)
          /\ StartsAt(s, a - Len(kSchemeSep), kSchemeSep)
          /\ e > a
          /\ ~StartsAt(s, p - Len(kHrefAttr), kHrefAttr)
          /\ ~StartsAt(s, p - Len(kSrcAttr), kSrcAttr)
       THEN e
       ELSE -1

image_extensions ==
    { <<".", "j", "p", "g">>, <<".", "j", "p", "e", "g">>, <<".", "p", "n", "g">>,
      <<".", "g", "i", "f">>, <<".", "w", "e", "b", "p">>, <<".", "s", "v", "g">>,
      <<".", "b", "m", "p">>, <<".", "i", "c", "o">> }

\* url.split("?")[0].split("#")[0].lower()
UrlPath(url) ==
    LET a == Slice(url, 0, RunEnd(url, 0, {"?"}))
    IN Lower(Slice(a, 0, RunEnd(a, 0, {"#"})))

\* replace_url(match)
replace_url(url) ==
    IF \E ext \in image_extensions : EndsWith(UrlPath(url), ext)
    THEN kUrlImgOpen \o url \o kUrlImgClose
    ELSE kUrlAnchorOpen \o url \o kPreMid \o url \o kAnchorClose

\* linkify_urls(text): re.sub(url_pattern, replace_url, text)
RECURSIVE LinkifyFrom(_, _)
LinkifyFrom(s, from) ==
    LET P == {p \in from..Len(s) : UrlEndAt(s, p) # -1}
    IN IF P = {} THEN Slice(s, from, Len(s))
       ELSE Slice(s, from, Min(P)) \o replace_url(Slice(s, Min(P), UrlEndAt(s, Min(P))))
            \o LinkifyFrom(s, UrlEndAt(s, Min(P)))

linkify_urls(text) == LinkifyFrom(text, 0)

\* What the call to_html(content_processed, toc=False, highlight=True) of the
\* org-python library does is not part of the repository.  The model lets the
\* environment choose among three behaviours: the text comes back as one
\* paragraph with its inline characters kept, the output is empty, or the
\* call raises.
ConvBehaviours == {"paragraph", "empty", "raise"}

to_html(text, conv) ==
    IF conv = "paragraph" /\ Strip(text) # <<>>
    THEN kParOpen \o Strip(text) \o kParClose \o <<"\n">>
    ELSE <<>>

\* the outcome of a call: a returned value or a raised exception
Returned(v) == [raised |-> FALSE, value |-> v]
Raised == [raised |-> TRUE, value |-> <<>>]

\* the statements of the try block after the conversion
PostProcess(html, blocks) ==
    linkify_urls(MentionPassFrom(LinkPass(ImgPassFrom(Restore(html, blocks, 1), 0)), 0))

\* the try block of _format_content
TryFormat(content, conv) ==
    IF conv = "raise" THEN Raised
    ELSE LET p == ProtectFrom(content, 0, 0)
             html == PostProcess(to_html(p.text, conv), p.blocks)
         IN Returned(IF html # <<>> THEN html ELSE kNoContent)

\* content.replace("\n", "<br>").replace("  ", "&nbsp;&nbsp;")
Fallback(content) == Replace(Replace(content, <<"\n">>, kBr), <<" ", " ">>, kNbsp2)

\* _format_content with the exception of the try block left to propagate
format_content_uncaught(content, mood, conv) ==
    IF Strip(content) = <<>> /\ mood # <<>>
    THEN Returned(kSpanOpen \o mood \o kSpanClose)
    ELSE TryFormat(content, conv)

\* _format_content(content, mood, reply_to) under conversion behaviour conv
format_content(content, mood, conv) ==
    IF Strip(content) = <<>> /\ mood # <<>>
    THEN Returned(kSpanOpen \o mood \o kSpanClose)
    ELSE IF TryFormat(content, conv).raised
         THEN Returned(Fallback(content))
         ELSE TryFormat(content, conv)

-----------------------------------------------------------------------------
(* Feed documents given to the parser *)

NL == <<"\n">>
SP == <<" ">>
pID == <<":", "I", "D", ":">>
pMOOD == <<":", "M", "O", "O", "D", ":">>

\* lines written before the Posts heading
HeadPool ==
    { <<>>,
      kTITLE \o <<" ", "a">> \o NL \o kNICK \o <<" ", "b">> \o NL,
      kTITLE \o NL \o kNICK \o <<" ", "b">> \o NL,
      SP \o kNICK \o <<" ", " ", "b", " ">> \o NL \o kNICK \o <<" ", "c">> \o NL }

\* the text between one ** line and the next
BlockPool ==
    { kPROPERTIES \o NL \o pID \o <<" ", "1">> \o NL \o kEND \o NL
          \o <<"x">> \o NL \o kTITLE \o <<" ", "z">>,
      kPROPERTIES \o NL \o pID \o <<" ", "2">> \o NL \o kEND,
      kPROPERTIES \o NL \o pID \o NL \o kEND \o NL \o <<"y">>,
      kPROPERTIES \o NL \o pMOOD \o <<" ", "m">> \o NL \o kEND \o NL \o NL \o <<"z">>,
      <<"w">> }

\* most ** blocks of one document
MaxBlocks == 2

BlockSeqs == UNION {[1..n -> BlockPool] : n \in 0..MaxBlocks}

RECURSIVE JoinBlocks(_, _)
JoinBlocks(bs, i) ==
    IF i > Len(bs) THEN <<>>
    ELSE kStars \o NL \o bs[i] \o NL \o JoinBlocks(bs, i + 1)

PostsHeading == <<"*", " ">> \o kPosts \o NL

Docs ==
    {h \o PostsHeading \o JoinBlocks(bs, 1) : h \in HeadPool, bs \in BlockSeqs}
    \cup {h \o JoinBlocks(bs, 1) : h \in HeadPool, bs \in [1..1 -> BlockPool]}

\* What the two extraction passes find in each document, computed once.
\* The passes only store keys in self.metadata and append to self.posts, so
\* their effect on an instance is these results laid over what it holds.
MetadataMemo == [t \in Docs |-> MetadataFound(t)]
PostsMemo == [t \in Docs |-> PostsFound(t)]

\* _extract_metadata(content) run on an instance whose self.metadata is md
extract_metadata(md, text) ==
    (IF text \in Docs THEN MetadataMemo[text] ELSE MetadataFound(text)) @@ md

\* _extract_posts(content) run on an instance whose self.posts is ps
extract_posts(ps, text) ==
    ps \o (IF text \in Docs THEN PostsMemo[text] ELSE PostsFound(text))

-----------------------------------------------------------------------------
(* One OrgSocialParser instance, called again and again *)

ParserInit ==
    /\ metadata = EmptyDict
    /\ posts = <<>>
    /\ given = None
    /\ dirty = FALSE
    /\ FormatIdle /\ UrlIdle /\ ConcIdle /\ ReqIdle

\* parser.parse_content(t)
ParseContent(t) ==
    /\ metadata' = extract_metadata(ResetMetadata(metadata), t)
    /\ posts' = extract_posts(ResetPosts(posts), t)
    /\ given' = Some(t)
    /\ dirty' = (metadata # EmptyDict /\ posts # <<>>)
    /\ UNCHANGED <<formatVars, urlVars, concVars, reqVars>>

ParserNext == \E t \in Docs : ParseContent(t)

SpecParser == ParserInit /\ [][ParserNext]_vars

\* the candidate blocks of a document: what is handed to _parse_post_block
CandidateBlocks(text) ==
    IF PostsSectionEnd(text) = -1 THEN {}
    ELSE LET pc == PostsContent(text)
             positions == PostPositions(pc, 0)
         IN {BlockOf(pc, positions, i) : i \in 1..Len(positions)} \ {<<>>}

\* C2: after any sequence of parse_content calls, every record of the
\* parser's post list has an ID property whose value is not empty.
C2_EveryPostHasID ==
    \A i \in 1..Len(posts) : kID \in DOMAIN posts[i] /\ posts[i][kID] # <<>>

\* a parsed document with a kept post and a candidate block whose drawer
\* has an ID line with an empty value
C2_Witness ==
    /\ given # None
    /\ Len(posts) >= 1
    /\ \E b \in CandidateBlocks(Get(given)) :
          /\ kID \in DOMAIN parse_post_block(b)
          /\ parse_post_block(b)[kID] = <<>>

\* C3: after any call, the instance holds exactly what a fresh parser holds
\* after parsing the same text: nothing of an earlier call is left, and
\* parsing the same text twice gives the same result.
C3_NoLeakBetweenCalls ==
    given # None =>
        /\ metadata = MetadataFound(Get(given))
        /\ posts = PostsFound(Get(given))

\* the instance held metadata and posts, and the latest text has neither
C3_Witness ==
    /\ given # None
    /\ dirty
    /\ metadata = EmptyDict
    /\ posts = <<>>

\* offset just after line j of lines, the newline that ends it included
RECURSIVE OffsetAfterLine(_, _)
OffsetAfterLine(lines, j) ==
    IF j = 0 THEN 0 ELSE OffsetAfterLine(lines, j - 1) + Len(lines[j]) + 1

\* the :END: lines of a block that close a drawer opened by a :PROPERTIES: line
DrawerEndLines(block) ==
    LET lines == SplitLines(block)
    IN {j \in 1..Len(lines) :
          /\ Strip(lines[j]) = kEND
          /\ \E i \in 1..(j - 1) : Strip(lines[i]) = kPROPERTIES}

\* the trimmed text of a block after the :END: line of its drawer
TextAfterDrawer(block) ==
    LET a == OffsetAfterLine(SplitLines(block), Min(DrawerEndLines(block)))
    IN IF a >= Len(block) THEN <<>> ELSE Strip(Slice(block, a, Len(block)))

\* C6: for every block handed to _parse_post_block, a block with a drawer
\* that ends in an :END: line gives as content the trimmed text after that
\* line (empty when nothing follows); only a block without a drawer gives
\* the whole block as content, and then no property.
C6_ContentIsTextAfterDrawer ==
    given # None =>
        \A b \in CandidateBlocks(Get(given)) :
            IF DrawerEndLines(b) # {}
            THEN parse_post_block(b)[kContent] = TextAfterDrawer(b)
            ELSE /\ parse_post_block(b)[kContent] = b
                 /\ DOMAIN parse_post_block(b) = {kContent}

\* the lines of a document that have the form of C9 for a key: optional
\* blanks, the keyword, and a value on the same line
KeywordLines(text, lit) ==
    LET lines == SplitLines(text)
    IN {i \in 1..Len(lines) :
          LET q == LStripFrom(lines[i], 0)
          IN StartsAt(lines[i], q, lit) /\ q + Len(lit) < Len(lines[i])}

SameLineValue(text, lit) ==
    LET line == SplitLines(text)[Min(KeywordLines(text, lit))]
    IN Strip(Slice(line, LStripFrom(line, 0) + Len(lit), Len(line)))

\* C9: for each of TITLE, NICK, DESCRIPTION, AVATAR the stored value is the
\* trimmed value of the first line of the form blanks, #+KEY:, value, taken
\* from that same line; a key without such a line is not stored.
C9_FirstLineSameLineValue ==
    given # None =>
        \A key \in DOMAIN metadata_patterns :
            IF KeywordLines(Get(given), metadata_patterns[key]) = {}
            THEN key \notin DOMAIN metadata
            ELSE /\ key \in DOMAIN metadata
                 /\ metadata[key] = SameLineValue(Get(given), metadata_patterns[key])

-----------------------------------------------------------------------------
(* parse_post_url *)

\* parse_post_url with the split made at the last "#"
parse_post_url_rsplit(post_url) ==
    IF Count(post_url, "#") = 0 THEN <<None, None>>
    ELSE LET k == RFind(post_url, <<"#">>)
         IN <<Some(Slice(post_url, 0, k)), Some(Slice(post_url, k + 1, Len(post_url)))>>

\* parse_post_url(post_url): (file_url, post_id), each None or Some(str)
parse_post_url(post_url) ==
    IF Count(post_url, "#") = 0 THEN <<None, None>>
    ELSE LET k == Find(post_url, <<"#">>, 0)
         IN <<Some(Slice(post_url, 0, k)), Some(Slice(post_url, k + 1, Len(post_url)))>>

\* longest post_url given to parse_post_url
MaxUrlLen == 4

UrlChars == {"u", "#", "1"}

Urls == UNION {[1..n -> UrlChars] : n \in 0..MaxUrlLen}

UrlInit ==
    /\ u_pc = "call"
    /\ u_url \in Urls
    /\ u_result = <<>>
    /\ ParserIdle /\ FormatIdle /\ ConcIdle /\ ReqIdle

ParsePostUrl ==
    /\ u_pc = "call"
    /\ u_result' = parse_post_url(u_url)
    /\ u_pc' = "done"
    /\ UNCHANGED <<u_url, parserVars, formatVars, concVars, reqVars>>

UrlNext == ParsePostUrl

SpecUrl == UrlInit /\ [][UrlNext]_vars

\* C7: when post_url is feedURL, "#", postID with no "#" in feedURL, the
\* result is (feedURL, postID), further "#" staying in postID; a post_url
\* without "#" gives (None, None).
C7_SplitsOnFirstHash ==
    u_pc = "done" =>
        /\ \A k \in 0..(Len(u_url) - 1) :
              (At(u_url, k) = "#" /\ \A j \in 0..(k - 1) : At(u_url, j) # "#")
              => u_result = <<Some(Slice(u_url, 0, k)),
                              Some(Slice(u_url, k + 1, Len(u_url)))>>
        /\ (\A j \in 1..Len(u_url) : u_url[j] # "#") => u_result = <<None, None>>

\* a permalink with a feed URL and a post ID that holds a further "#"
C7_Witness ==
    /\ u_pc = "done"
    /\ Count(u_url, "#") >= 2
    /\ u_result[1] = Some(<<"u">>)
    /\ Count(Get(u_result[2]), "#") >= 1

-----------------------------------------------------------------------------
(* Calls of _format_content *)

kPy == <<"p", "y">>
kUrl == kHttp \o kSchemeSep \o <<"u">>

\* the code written between the fences
CodePool ==
    { <<"x">>,
      <<"a", "<", "b", "&", "c">>,
      kUrl,
      Placeholder(1) }

\* the text written before the fenced blocks
PrefixPool ==
    { <<>>,
      <<" ">>,
      <<"a">>,
      Placeholder(0),
      kUrl \o <<"/", "i", ".", "P", "N", "G", "?", "q">>,
      kAnchor \o kMentionHref \o <<"1", "\"", ">", "b", "o", "b">> \o kAnchorClose,
      kImgOpen \o <<" ">> \o kSrcAttr \o <<"i", "\"", ">">> }

\* most fenced blocks of one content
MaxFences == 2

SrcSeqs == UNION {[1..n -> {<<kPy, c>> : c \in CodePool}] : n \in 0..MaxFences}

\* "#+BEGIN_SRC <lang>", the code, "#+END_SRC", each on lines of its own
RECURSIVE Fences(_, _)
Fences(src, i) ==
    IF i > Len(src) THEN <<>>
    ELSE NL \o kBEGIN_SRC \o SP \o src[i][1] \o NL \o src[i][2] \o kNlEND_SRC
         \o Fences(src, i + 1)

FormatInit ==
    /\ f_pc = "call"
    /\ f_src \in SrcSeqs
    /\ \E pre \in PrefixPool : f_content = pre \o Fences(f_src, 1)
    /\ f_mood \in {<<>>, <<"m">>}
    /\ f_conv \in ConvBehaviours
    /\ f_blocks = <<>>
    /\ f_out = <<>>
    /\ ParserIdle /\ UrlIdle /\ ConcIdle /\ ReqIdle

\* generator._format_content(content, mood, reply_to)
FormatContent ==
    /\ f_pc = "call"
    /\ f_out' = format_content(f_content, f_mood, f_conv)
    /\ f_blocks' = IF Strip(f_content) = <<>> /\ f_mood # <<>> THEN <<>>
                   ELSE ProtectFrom(f_content, 0, 0).blocks
    /\ f_pc' = "done"
    /\ UNCHANGED <<f_content, f_mood, f_conv, f_src>>
    /\ UNCHANGED <<parserVars, urlVars, concVars, reqVars>>

FormatNext == FormatContent

SpecFormat == FormatInit /\ [][FormatNext]_vars

\* number of occurrences of lit in s, overlapping ones included
Occurrences(s, lit) == Cardinality({k \in 0..Len(s) : StartsAt(s, k, lit)})

\* C4: _format_content returns a string that is not empty, and raises
\* nothing, for every content and mood and however the conversion behaves.
C4_NonEmptyNeverRaises ==
    f_pc = "done" => ~f_out.raised /\ f_out.value # <<>>

\* C5: restoration replaces the generated tokens only, each once: the
\* output of a converted content has one code block element for each
\* recorded block, whatever placeholder-like text the user wrote.
C5_OnlyGeneratedTokensRestored ==
    (f_pc = "done" /\ f_conv = "paragraph") =>
        Occurrences(f_out.value, kPreOpen) = Len(f_blocks)

\* the characters of the code with &, < and > escaped, nothing else changed
RECURSIVE EscapedSource(_)
EscapedSource(code) ==
    IF code = <<>> THEN <<>>
    ELSE (CASE Head(code) = "&" -> kAmp
            [] Head(code) = "<" -> kLt
            [] Head(code) = ">" -> kGt
            [] OTHER -> <<Head(code)>>) \o EscapedSource(Tail(code))

\* C10: on the non-fallback path a content with one fenced block gives an
\* output with exactly one code block element, of class language-<lang>,
\* holding exactly the escaped source, and with no placeholder token left.
\* Stated for the contents in which the user wrote no placeholder-like text,
\* so that what it says of the code block does not rest on C5.
C10_CodeBlockRoundTrip ==
    (/\ f_pc = "done"
     /\ f_conv = "paragraph"
     /\ Len(f_src) = 1
     /\ Occurrences(f_content, kPlaceholderHead) = 0) =>
        /\ Occurrences(f_out.value, kPreOpen) = 1
        /\ Occurrences(f_out.value, kPreOpen \o f_src[1][1] \o kPreMid
                \o EscapedSource(f_src[1][2]) \o kPreClose) = 1
        /\ Occurrences(f_out.value, kPlaceholderHead) = 0

-----------------------------------------------------------------------------
(* Two threads calling parse_content on one OrgSocialParser instance *)

Threads == {1, 2}

\* the documents the two threads pass
ConcDocs ==
    { kTITLE \o <<" ", "a">> \o NL \o PostsHeading \o kStars \o NL
          \o kPROPERTIES \o NL \o pID \o <<" ", "1">> \o NL \o kEND \o NL \o <<"x">> \o NL,
      kNICK \o <<" ", "b">> \o NL \o PostsHeading \o kStars \o NL
          \o kPROPERTIES \o NL \o pID \o <<" ", "2">> \o NL \o kEND \o NL \o <<"y">> \o NL,
      PostsHeading }

\* post_positions of a call, empty when the Posts section is not found
PositionsOf(text) ==
    IF PostsSectionEnd(text) = -1 THEN <<>>
    ELSE PostPositions(PostsContent(text), 0)

\* __init__ made dict 0 and list 0; the call of thread t makes dict t and list t
ConcInit ==
    /\ c_pc = [t \in Threads |-> "reset_metadata"]
    /\ c_text \in [Threads -> ConcDocs]
    /\ c_i = [t \in Threads |-> 1]
    /\ c_dicts = [o \in {0} \cup Threads |-> EmptyDict]
    /\ c_lists = [o \in {0} \cup Threads |-> <<>>]
    /\ self_metadata = 0
    /\ self_posts = 0
    /\ c_ret = [t \in Threads |-> 0]
    /\ c_seen = [t \in Threads |-> 0]
    /\ ParserIdle /\ FormatIdle /\ UrlIdle /\ ReqIdle

\* self.metadata = {}
CResetMetadata(t) ==
    /\ c_pc[t] = "reset_metadata"
    /\ self_metadata' = t
    /\ c_dicts' = [c_dicts EXCEPT ![t] = EmptyDict]
    /\ c_pc' = [c_pc EXCEPT ![t] = "reset_posts"]
    /\ UNCHANGED <<c_text, c_i, c_lists, self_posts, c_ret, c_seen>>
    /\ UNCHANGED <<parserVars, formatVars, urlVars, reqVars>>

\* self.posts = []
CResetPosts(t) ==
    /\ c_pc[t] = "reset_posts"
    /\ self_posts' = t
    /\ c_lists' = [c_lists EXCEPT ![t] = <<>>]
    /\ c_pc' = [c_pc EXCEPT ![t] = "extract_metadata"]
    /\ UNCHANGED <<c_text, c_i, c_dicts, self_metadata, c_ret, c_seen>>
    /\ UNCHANGED <<parserVars, formatVars, urlVars, reqVars>>

\* one turn of the loop of _extract_metadata, on the dict self.metadata is now
CExtractMetadata(t) ==
    /\ c_pc[t] = "extract_metadata"
    /\ c_dicts' = [c_dicts EXCEPT ![self_metadata] =
                      MetadataStore(@, MetadataKeys[c_i[t]], c_text[t])]
    /\ IF c_i[t] < Len(MetadataKeys)
       THEN c_i' = [c_i EXCEPT ![t] = @ + 1] /\ UNCHANGED c_pc
       ELSE /\ c_i' = [c_i EXCEPT ![t] = 1]
            /\ c_pc' = [c_pc EXCEPT ![t] =
                  IF PositionsOf(c_text[t]) = <<>> THEN "return" ELSE "extract_posts"]
    /\ UNCHANGED <<c_text, c_lists, self_metadata, self_posts, c_ret, c_seen>>
    /\ UNCHANGED <<parserVars, formatVars, urlVars, reqVars>>

\* one turn of the loop of _extract_posts, on the list self.posts is now
CExtractPosts(t) ==
    /\ c_pc[t] = "extract_posts"
    /\ c_lists' = [c_lists EXCEPT ![self_posts] =
                      PostsAppend(@, BlockOf(PostsContent(c_text[t]),
                                             PositionsOf(c_text[t]), c_i[t]))]
    /\ IF c_i[t] < Len(PositionsOf(c_text[t]))
       THEN c_i' = [c_i EXCEPT ![t] = @ + 1] /\ UNCHANGED c_pc
       ELSE c_pc' = [c_pc EXCEPT ![t] = "return"] /\ UNCHANGED c_i
    /\ UNCHANGED <<c_text, c_dicts, self_metadata, self_posts, c_ret, c_seen>>
    /\ UNCHANGED <<parserVars, formatVars, urlVars, reqVars>>

\* return self.posts
CReturn(t) ==
    /\ c_pc[t] = "return"
    /\ c_ret' = [c_ret EXCEPT ![t] = self_posts]
    /\ c_pc' = [c_pc EXCEPT ![t] = "read_metadata"]
    /\ UNCHANGED <<c_text, c_i, c_dicts, c_lists, self_metadata, self_posts, c_seen>>
    /\ UNCHANGED <<parserVars, formatVars, urlVars, reqVars>>

\* the caller reads parser.metadata, as preview() does after the call
CReadMetadata(t) ==
    /\ c_pc[t] = "read_metadata"
    /\ c_seen' = [c_seen EXCEPT ![t] = self_metadata]
    /\ c_pc' = [c_pc EXCEPT ![t] = "done"]
    /\ UNCHANGED <<c_text, c_i, c_dicts, c_lists, self_metadata, self_posts, c_ret>>
    /\ UNCHANGED <<parserVars, formatVars, urlVars, reqVars>>

ConcNext ==
    \E t \in Threads :
        \/ CResetMetadata(t)
        \/ CResetPosts(t)
        \/ CExtractMetadata(t)
        \/ CExtractPosts(t)
        \/ CReturn(t)
        \/ CReadMetadata(t)

SpecConc == ConcInit /\ [][ConcNext]_vars

\* C1: for any interleaving of two parse_content calls on one instance, the
\* post list a call returned and the metadata its caller got hold exactly
\* the posts and the metadata of that call's own text.
C1_ConcurrentCallsIsolated ==
    \A t \in Threads :
        c_pc[t] = "done" =>
            /\ c_lists[c_ret[t]] = PostsFound(c_text[t])
            /\ c_dicts[c_seen[t]] = MetadataFound(c_text[t])

-----------------------------------------------------------------------------
(* preview(): one request through the pipeline *)

\* the %XX escapes unquote meets in the permalinks of the model
PercentCodes == (<<"2", "3">> :> "#") @@ (<<"2", "5">> :> "%")

\* urllib.parse.unquote(s): one pass, a decoded character is not decoded again
RECURSIVE UnquoteFrom(_, _)
UnquoteFrom(s, p) ==
    IF p >= Len(s) THEN <<>>
    ELSE IF /\ At(s, p) = "%" /\ p + 3 <= Len(s)
            /\ Slice(s, p + 1, p + 3) \in DOMAIN PercentCodes
         THEN <<PercentCodes[Slice(s, p + 1, p + 3)]>> \o UnquoteFrom(s, p + 3)
         ELSE <<At(s, p)>> \o UnquoteFrom(s, p + 1)

Unquote(s) == UnquoteFrom(s, 0)

\* dict.get(key, default)
DictGet(d, key, default) == IF key \in DOMAIN d THEN d[key] ELSE default

\* datetime.fromisoformat(ts) for the timestamps of the model: a text of the
\* shape dddd-dd-dd parses to that date, any other raises ValueError (None)
fromisoformat(ts) ==
    IF /\ Len(ts) = 10
       /\ \A i \in {0, 1, 2, 3, 5, 6, 8, 9} : At(ts, i) \in Range(Digits)
       /\ At(ts, 4) = "-" /\ At(ts, 7) = "-"
    THEN Some(ts)
    ELSE None

\* _format_timestamp(timestamp)
format_timestamp(timestamp) ==
    LET dt == fromisoformat(Replace(timestamp, <<"Z">>, <<"+", "0", "0", ":", "0", "0">>))
    IN IF IsSome(dt) THEN Slice(Get(dt), 0, 10) ELSE kFallbackDate

\* _prepare_context(post, metadata, feed_url): formatted_content and
\* formatted_time of the context, or the exception that leaves it
ContextOf(formatted, formatted_time) ==
    IF formatted.raised THEN Raised
    ELSE Returned([formatted_content |-> formatted.value,
                   formatted_time |-> formatted_time])

prepare_context(post, conv) ==
    ContextOf(format_content(DictGet(post, kContent, <<>>),
                             DictGet(post, <<"M", "O", "O", "D">>, <<>>), conv),
              format_timestamp(DictGet(post, kID, <<>>)))

\* request.args.get("post")
PermalinkArgs ==
    { None, Some(<<>>),
      Some(<<"u">>), Some(<<"u", "#">>), Some(<<"#", "1">>),
      Some(<<"u", "#", "1">>), Some(<<"u", "#", "2">>), Some(<<"u", "#", "9">>),
      Some(<<"u", "%", "2", "3", "1">>), Some(<<"u", "#", "1", "#", "2">>),
      Some(<<"u", "#", "2", "0", "2", "5", "-", "0", "2", "-", "0", "3">>) }

\* documents the feed URL serves
FeedTexts ==
    { <<>>,
      <<"w">>,
      kTITLE \o <<" ", "a">> \o NL \o <<"w">> \o NL,
      kTITLE \o <<" ", "a">> \o NL \o PostsHeading \o <<"w">> \o NL,
      kTITLE \o <<" ", "a">> \o NL \o PostsHeading
          \o kStars \o NL \o kPROPERTIES \o NL \o pID \o <<" ", "1">> \o NL \o kEND \o NL
          \o <<"x">> \o NL
          \o kStars \o NL \o kPROPERTIES \o NL \o pID \o <<" ", "2">> \o NL \o kEND \o NL,
      PostsHeading
          \o kStars \o NL \o kPROPERTIES \o NL
          \o pID \o <<" ", "2", "0", "2", "5", "-", "0", "2", "-", "0", "3">> \o NL
          \o pMOOD \o <<" ", "m">> \o NL \o kEND \o NL \o NL
          \o kStars \o NL \o <<"1">> \o NL }

\* what fetch_social_org returns: response.text, or None after any exception
FetchResults == {None} \cup {Some(t) : t \in FeedTexts}

PreviewInit ==
    /\ r_pc = "start"
    /\ r_arg \in PermalinkArgs
    /\ r_file_url = None /\ r_post_id = None
    /\ r_text = None
    /\ r_metadata = EmptyDict /\ r_posts = <<>>
    /\ r_post = None
    /\ r_conv = "idle"
    /\ r_ctx = None
    /\ r_status = 0
    /\ r_steps = <<>>
    /\ ParserIdle /\ FormatIdle /\ UrlIdle /\ ConcIdle

ReqOthers == UNCHANGED <<parserVars, formatVars, urlVars, concVars>>

\* if not post_url: return render_template("welcome.html", ...)
Welcome ==
    /\ r_pc = "start"
    /\ r_arg \in {None, Some(<<>>)}
    /\ r_status' = 200
    /\ r_pc' = "done"
    /\ r_steps' = Append(r_steps, "welcome")
    /\ UNCHANGED <<r_arg, r_file_url, r_post_id, r_text, r_metadata, r_posts,
                   r_post, r_conv, r_ctx>>
    /\ ReqOthers

\* post_url = unquote(post_url); file_url, post_id = parse_post_url(post_url)
\* if not file_url or not post_id: abort(400, ...)
DecodePermalink ==
    /\ r_pc = "start"
    /\ r_arg \notin {None, Some(<<>>)}
    /\ LET res == parse_post_url(Unquote(Get(r_arg)))
           bad == \/ res[1] = None \/ Get(res[1]) = <<>>
                  \/ res[2] = None \/ Get(res[2]) = <<>>
       IN /\ r_file_url' = res[1]
          /\ r_post_id' = res[2]
          /\ r_status' = IF bad THEN 400 ELSE 0
          /\ r_pc' = IF bad THEN "done" ELSE "fetch"
    /\ r_steps' = Append(r_steps, "decode")
    /\ UNCHANGED <<r_arg, r_text, r_metadata, r_posts, r_post, r_conv, r_ctx>>
    /\ ReqOthers

\* content = fetch_social_org(file_url); if not content: abort(500, ...)
FetchSocialOrg(res) ==
    /\ r_pc = "fetch"
    /\ r_text' = res
    /\ LET bad == res = None \/ Get(res) = <<>>
       IN /\ r_status' = IF bad THEN 500 ELSE 0
          /\ r_pc' = IF bad THEN "done" ELSE "parse"
    /\ r_steps' = Append(r_steps, "fetch")
    /\ UNCHANGED <<r_arg, r_file_url, r_post_id, r_metadata, r_posts, r_post,
                   r_conv, r_ctx>>
    /\ ReqOthers

\* parser = OrgSocialParser(); parser.parse_content(content)
ParseFetched ==
    /\ r_pc = "parse"
    /\ r_metadata' = extract_metadata(ResetMetadata(EmptyDict), Get(r_text))
    /\ r_posts' = extract_posts(ResetPosts(<<>>), Get(r_text))
    /\ r_pc' = "find"
    /\ r_steps' = Append(r_steps, "parse")
    /\ UNCHANGED <<r_arg, r_file_url, r_post_id, r_text, r_post, r_conv, r_ctx,
                   r_status>>
    /\ ReqOthers

\* post = parser.find_post_by_id(post_id); if not post: abort(404, ...)
FindPost ==
    /\ r_pc = "find"
    /\ LET post == find_post_by_id(r_posts, Get(r_post_id))
           bad == post = None \/ Get(post) = EmptyDict
       IN /\ r_post' = post
          /\ r_status' = IF bad THEN 404 ELSE 0
          /\ r_pc' = IF bad THEN "done" ELSE "render"
    /\ r_steps' = Append(r_steps, "find")
    /\ UNCHANGED <<r_arg, r_file_url, r_post_id, r_text, r_metadata, r_posts,
                   r_conv, r_ctx>>
    /\ ReqOthers

\* html = generator.generate_preview(post, parser.metadata, feed_url=file_url)
\* return html; an exception that leaves the view is answered with 500
GeneratePreview(conv) ==
    /\ r_pc = "render"
    /\ r_conv' = conv
    /\ r_ctx' = prepare_context(Get(r_post), conv)
    /\ r_status' = IF r_ctx'.raised THEN 500 ELSE 200
    /\ r_pc' = "done"
    /\ r_steps' = Append(r_steps, "render")
    /\ UNCHANGED <<r_arg, r_file_url, r_post_id, r_text, r_metadata, r_posts, r_post>>
    /\ ReqOthers

PreviewNext ==
    \/ Welcome
    \/ DecodePermalink
    \/ \E res \in FetchResults : FetchSocialOrg(res)
    \/ ParseFetched
    \/ FindPost
    \/ \E conv \in ConvBehaviours : GeneratePreview(conv)

SpecPreview == PreviewInit /\ [][PreviewNext]_vars

\* the decoded permalink of the request
Permalink == Unquote(Get(r_arg))

\* the request ended in an error response
RequestFailed == r_pc = "done" /\ r_status \notin {0, 200}

\* C8 as stated: only the permalink's shape (400) and the lookup of the ID
\* (404) fail a request; no request ends in any other error state.
C8_OnlyShapeAndLookupFail ==
    RequestFailed => r_status \in {400, 404}

\* C8 amended: a request fails in exactly three ways.  A permalink with no
\* "#", or with nothing before or after it, is rejected with 400 before any
\* fetch or parse.  A fetch that yields no text (a failure or an empty
\* document) ends in 500 before any parse.  An ID absent from the parsed
\* document ends in 404.  A request whose post is found answers 200 whatever
\* the conversion or the timestamp parse did, and no failure of parsing or of
\* content rendering ends a request in an error state.
C8_ShapeFetchAndLookupFail ==
    /\ RequestFailed => r_status \in {400, 404, 500}
    /\ (r_pc = "done" /\ r_steps # <<"welcome">> /\ Count(Permalink, "#") = 0) =>
           r_status = 400
    /\ r_status = 400 =>
           /\ r_steps = <<"decode">>
           /\ r_text = None /\ r_posts = <<>> /\ r_metadata = EmptyDict
           /\ \/ Count(Permalink, "#") = 0
              \/ Find(Permalink, <<"#">>, 0) = 0
              \/ Find(Permalink, <<"#">>, 0) = Len(Permalink) - 1
    /\ r_status = 500 =>
           /\ r_steps = <<"decode", "fetch">>
           /\ r_text = None \/ Get(r_text) = <<>>
           /\ r_posts = <<>> /\ r_metadata = EmptyDict
    /\ r_status = 404 =>
           /\ r_steps = <<"decode", "fetch", "parse", "find">>
           /\ \A i \in 1..Len(r_posts) : r_posts[i][kID] # Get(r_post_id)
    /\ (r_pc = "done" /\ Len(r_steps) >= 4) =>
           IF \E i \in 1..Len(r_posts) : r_posts[i][kID] = Get(r_post_id)
           THEN /\ r_status = 200
                /\ r_steps = <<"decode", "fetch", "parse", "find", "render">>
           ELSE r_status = 404

\* a post was found, to_html raised and the timestamp did not parse, and the
\* request still answered 200 with the fallback content and the fallback date
C8_Witness ==
    /\ r_pc = "done"
    /\ r_conv = "raise"
    /\ r_ctx = Returned([formatted_content |->
                              Fallback(DictGet(Get(r_post), kContent, <<>>)),
                          formatted_time |-> kFallbackDate])
    /\ r_status = 200

\* a document with no Posts section was parsed and the request ended in 404
C8_WitnessNoPosts ==
    /\ r_status = 404
    /\ PostsSectionEnd(Get(r_text)) = -1

=============================================================================
